---- MODULE Spec2Model ----
(***************************************************************************)
(* Device-share request handling and reservation event translation of      *)
(* koordinator, as state machines.                                         *)
(*                                                                         *)
(*   pkg/scheduler/plugins/deviceshare/utils.go                            *)
(*       ValidateGPURequest, validateCommonDeviceRequest,                  *)
(*       ConvertGPUResource, convertCommonDeviceResource,                  *)
(*       memRatioToBytes, memBytesToRatio, fillGPUTotalMem,                *)
(*       patchContainerGPUResource                                         *)
(*   pkg/util/reservation/reservation.go                                   *)
(*       NewReservePod, ReservationToPodEventHandler                       *)
(*                                                                         *)
(* A corev1.ResourceList is a function from the resource names present to  *)
(* the integer resource.Quantity.Value() of each; the nil and the empty    *)
(* list are both the empty function.                                       *)
(***************************************************************************)
EXTENDS Integers, Sequences, FiniteSets, TLC

VARIABLES
    \* deviceshare pipeline: validate -> convert -> fill
    pc, podRequest, deviceType, combination, err, converted,
    nodeDeviceTotal, activeMinor, filled,
    \* unit normalizer applied to drawn inputs
    nOp, nIn, nTotal, nOut,
    \* patchContainerGPUResource on a drawn pod
    patchPc, containers, containersBefore, patchRequest,
    \* concurrent Reserve calls against one minor of the device capacity cache
    total, allocated, lock, rpc, delta, result,
    \* one notification delivered to a ReservationToPodEventHandler
    notification, handled, forwarded,
    \* one call of readMemInfo on a drawn path
    memPc, memFile, memInfo, memErr,
    \* the notifications about one reservation, delivered to the handler that
    \* NewReservationToPodEventHandler builds
    stored, latest, received, delivered,
    \* the multi-device classification of the converted request
    classified, multiple

pipeVars == <<pc, podRequest, deviceType, combination, err, converted,
              nodeDeviceTotal, activeMinor, filled>>
normVars == <<nOp, nIn, nTotal, nOut>>
patchVars == <<patchPc, containers, containersBefore, patchRequest>>
reserveVars == <<total, allocated, lock, rpc, delta, result>>
handlerVars == <<notification, handled, forwarded>>
memVars == <<memPc, memFile, memInfo, memErr>>
filterVars == <<stored, latest, received, delivered>>
classifyVars == <<classified, multiple>>

----------------------------------------------------------------------------
(* Bounds of the model *)

\* largest number of whole devices a drawn request asks for
MaxDevices == 2
\* device minors are 0..MaxMinor
MaxMinor == 1
\* the unit normalizer is applied to quantities 0..MaxQuantity
MaxQuantity == 120
\* and to total memories 0..MaxTotalMemory
MaxTotalMemory == 100
\* a pod has at most MaxContainers containers
MaxContainers == 3
\* NumCallers goroutines call Reserve
NumCallers == 3
\* notifications delivered about one reservation
MaxNotifications == 3

----------------------------------------------------------------------------
(* Resource names and the combination bits *)

ResourceNvidiaGPU      == "nvidia.com/gpu"
ResourceGPU            == "koordinator.sh/gpu"
ResourceGPUCore        == "koordinator.sh/gpu-core"
ResourceGPUMemory      == "koordinator.sh/gpu-memory"
ResourceGPUMemoryRatio == "koordinator.sh/gpu-memory-ratio"
ResourceRDMA           == "koordinator.sh/rdma"
ResourceFPGA           == "koordinator.sh/fpga"
\* a resource that is no device resource
ResourceCPU            == "cpu"

GPU  == "gpu"
RDMA == "rdma"
FPGA == "fpga"
DeviceTypes == {GPU, RDMA, FPGA}

NvidiaGPUExist      == 1
KoordGPUExist       == 2
GPUCoreExist        == 4
GPUMemoryExist      == 8
GPUMemoryRatioExist == 16

DeviceResourceNames(dt) ==
    CASE dt = GPU  -> <<ResourceNvidiaGPU, ResourceGPU, ResourceGPUCore,
                        ResourceGPUMemory, ResourceGPUMemoryRatio>>
      [] dt = RDMA -> <<ResourceRDMA>>
      [] dt = FPGA -> <<ResourceFPGA>>

Range(s) == {s[i] : i \in DOMAIN s}

EmptyList == <<>>

\* podRequest[name] of Go: the zero Quantity when the name is absent
Get(list, name) == IF name \in DOMAIN list THEN list[name] ELSE 0

Has(list, name) == name \in DOMAIN list

\* list[name] = v of Go
Put(list, name, v) ==
    [n \in DOMAIN list \cup {name} |-> IF n = name THEN v ELSE list[n]]

IsEmptyRequest(list) == DOMAIN list = {}

\* mask |= bit
BitOr(mask, bit) == IF (mask \div bit) % 2 = 1 THEN mask ELSE mask + bit

\* the check with its bound off by a device: 150 passes
BadRatioAbove200(v) == v > 200 /\ v % 100 # 0

\* v > 100 && v%100 != 0
BadRatio(v) == v > 100 /\ v % 100 # 0

hasDeviceResource(req, dt) ==
    IF IsEmptyRequest(req) THEN FALSE
    ELSE \E n \in Range(DeviceResourceNames(dt)) : Has(req, n)

----------------------------------------------------------------------------
(* Errors: fmt.Errorf values, classed by their message *)

NoError            == "nil"
EmptyRequest       == "pod request should not be empty"
InvalidQuantity    == "failed to validate"
InvalidCombination == "request is not valid, current combination"
UnsupportedType    == "device type is not supported yet"

validateCommonDeviceRequest(req, dt) ==
    IF IsEmptyRequest(req) THEN EmptyRequest
    ELSE IF dt \notin {FPGA, RDMA} THEN UnsupportedType
    ELSE LET commonDevice == IF dt = FPGA THEN Get(req, ResourceFPGA)
                                          ELSE Get(req, ResourceRDMA)
         IN IF BadRatio(commonDevice) THEN InvalidQuantity ELSE NoError

\* the whitelist with gpu-core alone let through
WhitelistMasksWithCoreAlone ==
    { NvidiaGPUExist,
      KoordGPUExist,
      GPUCoreExist,
      BitOr(GPUCoreExist, GPUMemoryExist),
      BitOr(GPUCoreExist, GPUMemoryRatioExist) }

\* the combinations ValidateGPURequest accepts
WhitelistMasks ==
    { NvidiaGPUExist,
      KoordGPUExist,
      BitOr(GPUCoreExist, GPUMemoryExist),
      BitOr(GPUCoreExist, GPUMemoryRatioExist) }

ValidateGPURequest(req) ==
    IF IsEmptyRequest(req) THEN [combination |-> 0, err |-> EmptyRequest]
    ELSE
    LET c1 == IF Has(req, ResourceNvidiaGPU) THEN BitOr(0, NvidiaGPUExist) ELSE 0
    IN
    IF Has(req, ResourceGPU) /\ BadRatio(req[ResourceGPU])
    THEN [combination |-> c1, err |-> InvalidQuantity]
    ELSE
    LET c2 == IF Has(req, ResourceGPU) THEN BitOr(c1, KoordGPUExist) ELSE c1
    IN
    IF Has(req, ResourceGPUCore) /\ BadRatio(req[ResourceGPUCore])
    THEN [combination |-> c2, err |-> InvalidQuantity]
    ELSE
    LET c3 == IF Has(req, ResourceGPUCore) THEN BitOr(c2, GPUCoreExist) ELSE c2
        c4 == IF Has(req, ResourceGPUMemory) THEN BitOr(c3, GPUMemoryExist) ELSE c3
    IN
    IF Has(req, ResourceGPUMemoryRatio) /\ BadRatio(req[ResourceGPUMemoryRatio])
    THEN [combination |-> c4, err |-> InvalidQuantity]
    ELSE
    LET c5 == IF Has(req, ResourceGPUMemoryRatio)
              THEN BitOr(c4, GPUMemoryRatioExist) ELSE c4
    IN
    IF c5 \in WhitelistMasks
    THEN [combination |-> c5, err |-> NoError]
    ELSE [combination |-> c5, err |-> InvalidCombination]

convertCommonDeviceResource(req, dt) ==
    IF IsEmptyRequest(req) THEN EmptyList
    ELSE IF dt = RDMA /\ Has(req, ResourceRDMA)
         THEN Put(EmptyList, ResourceRDMA, req[ResourceRDMA])
    ELSE IF dt = FPGA /\ Has(req, ResourceFPGA)
         THEN Put(EmptyList, ResourceFPGA, req[ResourceFPGA])
    ELSE EmptyList

\* gpu-memory bytes handed on under the gpu-memory-ratio name
convertCoreAndMemoryAsRatio(req) ==
    Put(Put(EmptyList, ResourceGPUCore, Get(req, ResourceGPUCore)),
        ResourceGPUMemoryRatio, Get(req, ResourceGPUMemory))

\* case GPUCoreExist | GPUMemoryExist
convertCoreAndMemory(req) ==
    Put(Put(EmptyList, ResourceGPUCore, Get(req, ResourceGPUCore)),
        ResourceGPUMemory, Get(req, ResourceGPUMemory))

\* case GPUCoreExist | GPUMemoryRatioExist
convertCoreAndMemoryRatio(req) ==
    Put(Put(EmptyList, ResourceGPUCore, Get(req, ResourceGPUCore)),
        ResourceGPUMemoryRatio, Get(req, ResourceGPUMemoryRatio))

\* koordinator.sh/gpu taken a hundred times over, as nvidia.com/gpu is
convertKoordGPUAsCount(req) ==
    Put(Put(EmptyList, ResourceGPUCore, Get(req, ResourceGPU) * 100),
        ResourceGPUMemoryRatio, Get(req, ResourceGPU) * 100)

\* case KoordGPUExist
convertKoordGPU(req) ==
    Put(Put(EmptyList, ResourceGPUCore, Get(req, ResourceGPU)),
        ResourceGPUMemoryRatio, Get(req, ResourceGPU))

\* case NvidiaGPUExist
convertNvidiaGPU(req) ==
    Put(Put(EmptyList, ResourceGPUCore, Get(req, ResourceNvidiaGPU) * 100),
        ResourceGPUMemoryRatio, Get(req, ResourceNvidiaGPU) * 100)

ConvertGPUResource(req, mask) ==
    IF IsEmptyRequest(req) THEN EmptyList
    ELSE IF mask = BitOr(GPUCoreExist, GPUMemoryExist) THEN convertCoreAndMemory(req)
    ELSE IF mask = BitOr(GPUCoreExist, GPUMemoryRatioExist)
         THEN convertCoreAndMemoryRatio(req)
    ELSE IF mask = KoordGPUExist THEN convertKoordGPU(req)
    ELSE IF mask = NvidiaGPUExist THEN convertNvidiaGPU(req)
    ELSE EmptyList

----------------------------------------------------------------------------
(* float64 arithmetic of memBytesToRatio                                   *)
(*                                                                         *)
(* A finite non-zero float64 is its 53 significand bits, most significant  *)
(* (always 1) first, and its exponent: the value is 1.b2 b3 ... b53 times  *)
(* 2^exp. Division and multiplication compute the exact result and round   *)
(* it to 53 bits, to nearest, ties to even, as IEEE 754 does. The int64    *)
(* operands of the model are below 2^53, so float64(x) is exact.           *)

SignificandBits == 53

\* math.MinInt64 and math.MaxInt64. They exceed the integers of the checker;
\* these stand for them and lie outside every quantity the model draws.
MinInt64 == -2147483647
MaxInt64 == 2147483647

RECURSIVE BitLength(_)
BitLength(n) == IF n = 0 THEN 0 ELSE 1 + BitLength(n \div 2)

\* n as w bits, most significant first
NatToBits(n, w) == [i \in 1..w |-> (n \div (2 ^ (w - i))) % 2]

RECURSIVE BitsToNat(_)
BitsToNat(s) ==
    IF s = <<>> THEN 0
    ELSE 2 * BitsToNat(SubSeq(s, 1, Len(s) - 1)) + s[Len(s)]

\* Long division and multiplication work on chunks of ChunkBits bits.
ChunkBits == 9

\* the next n chunks of bits of r/t (0 <= r < t) and the remainder left after them
RECURSIVE LongDiv(_, _, _)
LongDiv(r, t, n) ==
    IF n = 0 THEN [bits |-> <<>>, rem |-> r]
    ELSE LET d    == r * (2 ^ ChunkBits)
             rest == LongDiv(d % t, t, n - 1)
         IN [bits |-> NatToBits(d \div t, ChunkBits) \o rest.bits, rem |-> rest.rem]

\* the number k >= 1 of doublings after which r (0 < r < t) reaches t
RECURSIVE LeadShift(_, _)
LeadShift(r, t) == IF 2 * r >= t THEN 1 ELSE 1 + LeadShift(2 * r, t)

\* bits * c + carry, for a small multiplier c
RECURSIVE MulSmall(_, _, _)
MulSmall(s, c, carry) ==
    IF s = <<>>
    THEN NatToBits(carry, BitLength(carry))
    ELSE LET w == IF Len(s) < ChunkBits THEN Len(s) ELSE ChunkBits
             v == BitsToNat(SubSeq(s, Len(s) - w + 1, Len(s))) * c + carry
         IN MulSmall(SubSeq(s, 1, Len(s) - w), c, v \div (2 ^ w))
                \o NatToBits(v % (2 ^ w), w)

\* bits + 1; one bit longer when every bit was 1
Increment(s) ==
    LET zeros == {i \in DOMAIN s : s[i] = 0}
    IN IF zeros = {} THEN [i \in 1..(Len(s) + 1) |-> IF i = 1 THEN 1 ELSE 0]
       ELSE LET j == CHOOSE i \in zeros : \A k \in zeros : k <= i
            IN [i \in DOMAIN s |-> IF i < j THEN s[i] ELSE IF i = j THEN 1 ELSE 0]

FloatZero == [class |-> "zero", bits |-> <<>>, exp |-> 0]
FloatInf  == [class |-> "inf",  bits |-> <<>>, exp |-> 0]
FloatNaN  == [class |-> "nan",  bits |-> <<>>, exp |-> 0]

\* The exact value 1.s2 s3 ... times 2^e (s has at least 54 bits, s[1] = 1; sticky
\* says that non-zero digits follow s), rounded to nearest, ties to even.
RoundFloat(s, sticky, e) ==
    LET keep  == SubSeq(s, 1, SignificandBits)
        guard == s[SignificandBits + 1]
        rest  == sticky \/ \E i \in (SignificandBits + 2)..Len(s) : s[i] = 1
        up    == guard = 1 /\ (rest \/ keep[SignificandBits] = 1)
        inc   == Increment(keep)
    IN IF ~up THEN [class |-> "finite", bits |-> keep, exp |-> e]
       ELSE IF Len(inc) = SignificandBits
            THEN [class |-> "finite", bits |-> inc, exp |-> e]
            ELSE [class |-> "finite", bits |-> SubSeq(inc, 1, SignificandBits),
                  exp |-> e + 1]

\* chunks of quotient bits that hold the significand and a guard bit
DivChunks == (SignificandBits + 1 + ChunkBits - 1) \div ChunkBits

\* float64(a) / float64(b), for a >= 0 and b >= 0
Float64Div(a, b) ==
    IF b = 0 THEN (IF a = 0 THEN FloatNaN ELSE FloatInf)
    ELSE IF a = 0 THEN FloatZero
    ELSE IF a >= b
    THEN LET q    == a \div b
             l    == BitLength(q)
             frac == LongDiv(a % b, b, DivChunks)
         IN RoundFloat(NatToBits(q, l) \o frac.bits, frac.rem # 0, l - 1)
    ELSE LET k    == LeadShift(a, b)
             frac == LongDiv(a * (2 ^ (k - 1)), b, DivChunks)
         IN RoundFloat(frac.bits, frac.rem # 0, 0 - k)

\* f * 100, the untyped constant 100 being float64(100) exactly
Float64Mul100(f) ==
    IF f.class # "finite" THEN f
    ELSE LET p == MulSmall(f.bits, 100, 0)
         IN RoundFloat(p, FALSE, f.exp + Len(p) - SignificandBits)

\* int64(f). Go leaves the conversion of a value that int64 cannot hold to the
\* implementation: amd64 gives MinInt64 for NaN and the infinities, arm64 gives
\* 0 for NaN and MaxInt64 for +Inf.
Float64ToInt64(f) ==
    CASE f.class = "zero"   -> {0}
      [] f.class = "nan"    -> {MinInt64, 0}
      [] f.class = "inf"    -> {MinInt64, MaxInt64}
      [] f.class = "finite" ->
            IF f.exp < 0 THEN {0}
            ELSE {BitsToNat(SubSeq(f.bits, 1, f.exp + 1))}

----------------------------------------------------------------------------
(* Unit normalizer *)

\* ratio.Value()*totalMemory.Value()/100 in int64
memRatioToBytes(ratio, totalMemory) == (ratio * totalMemory) \div 100

\* int64(float64(bytes.Value())/float64(totalMemory.Value())*100): the set of
\* results the build can produce (one result unless totalMemory is 0)
memBytesToRatio(bytes, totalMemory) ==
    Float64ToInt64(Float64Mul100(Float64Div(bytes, totalMemory)))

----------------------------------------------------------------------------
(* fillGPUTotalMem *)

\* `for i := range nodeDeviceTotal { activeMinor = i; break }`: Go ranges over a
\* map in an order it does not fix, so any key may come first; 0 when the map is
\* empty.
ActiveMinors(ndt) == IF DOMAIN ndt = {} THEN {0} ELSE DOMAIN ndt

\* nodeDeviceTotal[activeMinor][ResourceGPUMemory]: indexing a missing minor gives
\* the nil list, and a missing name the zero Quantity
ActiveTotalMemory(ndt, minor) ==
    IF minor \in DOMAIN ndt THEN Get(ndt[minor], ResourceGPUMemory) ELSE 0

\* the requests fillGPUTotalMem can leave in place of req
fillGPUTotalMem(ndt, minor, req) ==
    LET totalMemory == ActiveTotalMemory(ndt, minor)
    IN IF Has(req, ResourceGPUMemory)
       THEN { Put(req, ResourceGPUMemoryRatio, v) :
                v \in memBytesToRatio(req[ResourceGPUMemory], totalMemory) }
       ELSE { Put(req, ResourceGPUMemory,
                  memRatioToBytes(Get(req, ResourceGPUMemoryRatio), totalMemory)) }

----------------------------------------------------------------------------
(* Inputs *)

\* ratio-typed quantities: half a device, and for each device count the whole
\* devices and a half more
RatioValues == {50} \cup {100 * k + d : k \in 1..MaxDevices, d \in {0, 50}}
\* whole-device counts
CountValues == 1..MaxDevices
\* gpu-memory byte quantities
ByteValues == {29, 50, 150}
\* per-device total memory
TotalMemoryValues == {0, 100, 200}

\* a value of the set, or -1 for a name the list does not hold
Optional(values) == values \cup {-1}

\* the list of the names of pairs whose value is not -1
MkList(pairs) ==
    LET present == {i \in DOMAIN pairs : pairs[i][2] # -1}
    IN [n \in {pairs[i][1] : i \in present} |->
          pairs[CHOOSE i \in present : pairs[i][1] = n][2]]

GPURequests ==
    { MkList(<< <<ResourceNvidiaGPU, nv>>, <<ResourceGPU, gpu>>,
                <<ResourceGPUCore, core>>, <<ResourceGPUMemory, mem>>,
                <<ResourceGPUMemoryRatio, ratio>>, <<ResourceCPU, cpu>> >>) :
        nv \in Optional(CountValues), gpu \in Optional(RatioValues),
        core \in Optional(RatioValues), mem \in Optional(ByteValues),
        ratio \in Optional(RatioValues), cpu \in Optional({2}) }

CommonRequests ==
    { MkList(<< <<ResourceRDMA, rdma>>, <<ResourceFPGA, fpga>>,
                <<ResourceCPU, cpu>> >>) :
        rdma \in Optional(RatioValues), fpga \in Optional(RatioValues),
        cpu \in Optional({2}) }

Minors == 0..MaxMinor

DeviceTotal(mem) ==
    Put(Put(Put(EmptyList, ResourceGPUCore, 100), ResourceGPUMemoryRatio, 100),
        ResourceGPUMemory, mem)

\* the device cache of a node: some minors, all of one kind of GPU
NodeDeviceTotals ==
    { [m \in present |-> DeviceTotal(mem)] :
        present \in SUBSET Minors, mem \in TotalMemoryValues }

----------------------------------------------------------------------------
(* The pipeline of one pod: validate, convert, fill *)

InitPipe ==
    /\ pc = "start"
    /\ podRequest \in GPURequests \cup CommonRequests
    /\ deviceType = GPU
    /\ combination = 0
    /\ err = NoError
    /\ converted = EmptyList
    /\ nodeDeviceTotal = <<>>
    /\ activeMinor = 0
    /\ filled = EmptyList

IdlePipe ==
    /\ pc = "idle"
    /\ podRequest = EmptyList
    /\ deviceType = GPU
    /\ combination = 0
    /\ err = NoError
    /\ converted = EmptyList
    /\ nodeDeviceTotal = <<>>
    /\ activeMinor = 0
    /\ filled = EmptyList

DoValidateGPU ==
    /\ pc = "start"
    /\ LET res == ValidateGPURequest(podRequest)
       IN /\ combination' = res.combination
          /\ err' = res.err
    /\ deviceType' = GPU
    /\ pc' = "validated"
    /\ UNCHANGED <<podRequest, converted, nodeDeviceTotal, activeMinor, filled>>
    /\ UNCHANGED <<normVars, patchVars, reserveVars, handlerVars, memVars, filterVars, classifyVars>>

DoValidateCommon ==
    /\ pc = "start"
    /\ \E dt \in DeviceTypes \ {GPU} :
        /\ deviceType' = dt
        /\ err' = validateCommonDeviceRequest(podRequest, dt)
    /\ pc' = "validated"
    /\ UNCHANGED <<podRequest, combination, converted, nodeDeviceTotal,
                   activeMinor, filled>>
    /\ UNCHANGED <<normVars, patchVars, reserveVars, handlerVars, memVars, filterVars, classifyVars>>

DoConvertGPU ==
    /\ pc = "validated"
    /\ deviceType = GPU
    /\ err = NoError
    /\ converted' = ConvertGPUResource(podRequest, combination)
    /\ pc' = "converted"
    /\ UNCHANGED <<podRequest, deviceType, combination, err, nodeDeviceTotal,
                   activeMinor, filled>>
    /\ UNCHANGED <<normVars, patchVars, reserveVars, handlerVars, memVars, filterVars, classifyVars>>

DoConvertCommon ==
    /\ pc = "validated"
    /\ deviceType # GPU
    /\ err = NoError
    /\ converted' = convertCommonDeviceResource(podRequest, deviceType)
    /\ pc' = "converted"
    /\ UNCHANGED <<podRequest, deviceType, combination, err, nodeDeviceTotal,
                   activeMinor, filled>>
    /\ UNCHANGED <<normVars, patchVars, reserveVars, handlerVars, memVars, filterVars, classifyVars>>

DoFill ==
    /\ pc = "converted"
    /\ deviceType = GPU
    /\ \E ndt \in NodeDeviceTotals :
         \E minor \in ActiveMinors(ndt) :
            /\ nodeDeviceTotal' = ndt
            /\ activeMinor' = minor
            /\ filled' \in fillGPUTotalMem(ndt, minor, converted)
    /\ pc' = "filled"
    /\ UNCHANGED <<podRequest, deviceType, combination, err, converted>>
    /\ UNCHANGED <<normVars, patchVars, reserveVars, handlerVars, memVars, filterVars, classifyVars>>

----------------------------------------------------------------------------
(* The unit normalizer on its own *)

InitNorm ==
    /\ nOp = "none"
    /\ nIn \in 0..MaxQuantity
    /\ nTotal \in 0..MaxTotalMemory
    /\ nOut = 0

IdleNorm ==
    /\ nOp = "idle"
    /\ nIn = 0
    /\ nTotal = 0
    /\ nOut = 0

ApplyRatioToBytes ==
    /\ nOp = "none"
    /\ nOp' = "memRatioToBytes"
    /\ nOut' = memRatioToBytes(nIn, nTotal)
    /\ UNCHANGED <<nIn, nTotal>>
    /\ UNCHANGED <<pipeVars, patchVars, reserveVars, handlerVars, memVars, filterVars, classifyVars>>

ApplyBytesToRatio ==
    /\ nOp = "none"
    /\ nOp' = "memBytesToRatio"
    /\ nOut' \in memBytesToRatio(nIn, nTotal)
    /\ UNCHANGED <<nIn, nTotal>>
    /\ UNCHANGED <<pipeVars, patchVars, reserveVars, handlerVars, memVars, filterVars, classifyVars>>

ApplyRoundTrip ==
    /\ nOp = "none"
    /\ nOp' = "roundTrip"
    /\ nOut' \in memBytesToRatio(memRatioToBytes(nIn, nTotal), nTotal)
    /\ UNCHANGED <<nIn, nTotal>>
    /\ UNCHANGED <<pipeVars, patchVars, reserveVars, handlerVars, memVars, filterVars, classifyVars>>

----------------------------------------------------------------------------
(* patchContainerGPUResource *)

\* A container is its Resources.Requests: hasRequests is FALSE for a nil map.
Container(has, reqs) == [hasRequests |-> has, requests |-> reqs]

\* the inner loop over DeviceResourceNames[GPU], after the nil check
needPatch(c) ==
    /\ c.hasRequests
    /\ \E i \in DOMAIN DeviceResourceNames(GPU) :
          Has(c.requests, DeviceResourceNames(GPU)[i])

PatchedNames == <<ResourceGPUCore, ResourceGPUMemory, ResourceGPUMemoryRatio>>

\* reqs[v] = podRequest[v] for the three names, in order
RECURSIVE patchRequests(_, _, _)
patchRequests(reqs, req, i) ==
    IF i > Len(PatchedNames) THEN reqs
    ELSE patchRequests(Put(reqs, PatchedNames[i], Get(req, PatchedNames[i])), req, i + 1)

\* the loop without its break: every container that asks for a GPU is patched
patchEveryContainer(cs, req) ==
    [i \in DOMAIN cs |->
        IF needPatch(cs[i])
        THEN [cs[i] EXCEPT !.requests = patchRequests(cs[i].requests, req, 1)]
        ELSE cs[i]]

\* the loop over pod.Spec.Containers from container i on; it breaks after the
\* first container it patches
RECURSIVE patchFrom(_, _, _)
patchFrom(cs, req, i) ==
    IF i > Len(cs) THEN cs
    ELSE IF needPatch(cs[i])
         THEN [cs EXCEPT ![i].requests = patchRequests(cs[i].requests, req, 1)]
         ELSE patchFrom(cs, req, i + 1)

patchContainerGPUResource(cs, req) == patchFrom(cs, req, 1)

ContainerValues ==
    { Container(FALSE, EmptyList),
      Container(TRUE, EmptyList),
      Container(TRUE, MkList(<< <<ResourceCPU, 2>> >>)),
      Container(TRUE, MkList(<< <<ResourceCPU, 2>>, <<ResourceNvidiaGPU, 1>> >>)),
      Container(TRUE, MkList(<< <<ResourceGPU, 50>> >>)),
      Container(TRUE, MkList(<< <<ResourceGPUCore, 50>>, <<ResourceGPUMemory, 29>> >>)),
      Container(TRUE, MkList(<< <<ResourceCPU, 2>>, <<ResourceGPUMemoryRatio, 50>> >>)) }

\* the request the pod is patched with: filled, or only converted
PatchRequestValues ==
    { MkList(<< <<ResourceGPUCore, 50>>, <<ResourceGPUMemory, 29>>,
                <<ResourceGPUMemoryRatio, 28>> >>),
      MkList(<< <<ResourceGPUCore, 200>>, <<ResourceGPUMemory, 400>>,
                <<ResourceGPUMemoryRatio, 200>> >>),
      MkList(<< <<ResourceGPUCore, 100>>, <<ResourceGPUMemoryRatio, 100>> >>) }

InitPatch ==
    /\ patchPc = "start"
    /\ containers \in UNION {[1..n -> ContainerValues] : n \in 0..MaxContainers}
    /\ containersBefore = containers
    /\ patchRequest \in PatchRequestValues

IdlePatch ==
    /\ patchPc = "idle"
    /\ containers = <<>>
    /\ containersBefore = <<>>
    /\ patchRequest = EmptyList

DoPatch ==
    /\ patchPc = "start"
    /\ containers' = patchContainerGPUResource(containers, patchRequest)
    /\ patchPc' = "patched"
    /\ UNCHANGED <<containersBefore, patchRequest>>
    /\ UNCHANGED <<pipeVars, normVars, reserveVars, handlerVars, memVars, filterVars, classifyVars>>

----------------------------------------------------------------------------
(* Device capacity cache: Reserve                                          *)
(*                                                                         *)
(* The cache is not among the source files at hand; Reserve follows its    *)
(* contract: under the mutual exclusion of the node and device type, it    *)
(* adds delta to allocated if and only if allocated+delta <= total for     *)
(* every name of delta, and otherwise fails and changes nothing.           *)

InsufficientCapacity == "InsufficientCapacity"
Reserved == "ok"

Callers == 1..NumCallers

CapacityNames == {ResourceGPUCore, ResourceGPUMemoryRatio}

Fits(alloc, tot, d) == \A n \in DOMAIN d : Get(alloc, n) + d[n] <= Get(tot, n)

\* Reserve deciding on the first resource name alone
ReserveCheckingCoreOnly(alloc, tot, d) ==
    IF Get(alloc, ResourceGPUCore) + Get(d, ResourceGPUCore) <= Get(tot, ResourceGPUCore)
    THEN [allocated |-> [n \in DOMAIN alloc |-> alloc[n] + Get(d, n)],
          err |-> Reserved]
    ELSE [allocated |-> alloc, err |-> InsufficientCapacity]

Reserve(alloc, tot, d) ==
    IF Fits(alloc, tot, d)
    THEN [allocated |-> [n \in DOMAIN alloc |-> alloc[n] + Get(d, n)],
          err |-> Reserved]
    ELSE [allocated |-> alloc, err |-> InsufficientCapacity]

DeltaValues == {50, 100}

InitReserve ==
    /\ total = [n \in CapacityNames |-> 100]
    /\ allocated = [n \in CapacityNames |-> 0]
    /\ lock = 0
    /\ rpc = [c \in Callers |-> "start"]
    /\ delta \in [Callers -> [CapacityNames -> DeltaValues]]
    /\ result = [c \in Callers |-> "none"]

IdleReserve ==
    /\ total = EmptyList
    /\ allocated = EmptyList
    /\ lock = 0
    /\ rpc = <<>>
    /\ delta = <<>>
    /\ result = <<>>

\* caller c takes the lock of the node and device type
Acquire(c) ==
    /\ rpc[c] = "start"
    /\ lock = 0
    /\ lock' = c
    /\ rpc' = [rpc EXCEPT ![c] = "locked"]
    /\ UNCHANGED <<total, allocated, delta, result>>
    /\ UNCHANGED <<pipeVars, normVars, patchVars, handlerVars, memVars, filterVars, classifyVars>>

\* caller c, holding the lock, checks and commits, and gives the lock back
DoReserve(c) ==
    /\ rpc[c] = "locked"
    /\ lock = c
    /\ LET res == Reserve(allocated, total, delta[c])
       IN /\ allocated' = res.allocated
          /\ result' = [result EXCEPT ![c] = res.err]
    /\ lock' = 0
    /\ rpc' = [rpc EXCEPT ![c] = "done"]
    /\ UNCHANGED <<total, delta>>
    /\ UNCHANGED <<pipeVars, normVars, patchVars, handlerVars, memVars, filterVars, classifyVars>>

----------------------------------------------------------------------------
(* Reservations and reserve pods (pkg/util/reservation) *)

AnnotationReservePod      == "scheduling.koordinator.sh/reserve-pod"
AnnotationReservationName == "scheduling.koordinator.sh/reservation-name"
AnnotationReservationNode == "scheduling.koordinator.sh/reservation-node"

NamespaceDefault     == "default"
DefaultSchedulerName == "default-scheduler"

ReservationPending   == "Pending"
ReservationAvailable == "Available"
ReservationWaiting   == "Waiting"
ReservationSucceeded == "Succeeded"
ReservationFailed    == "Failed"

PodSucceeded == "Succeeded"
PodFailed    == "Failed"

\* a map[string]string: b's entries written over a's
Merge(a, b) == [k \in DOMAIN a \cup DOMAIN b |-> IF k \in DOMAIN b THEN b[k] ELSE a[k]]

NoMap == <<>>

\* r.Spec.Template: nil, or the metadata and the pod spec of the template
NilTemplate ==
    [isNil |-> TRUE, namespace |-> "", labels |-> NoMap, annotations |-> NoMap,
     nodeName |-> "", schedulerName |-> "", containers |-> ""]

Template(ns, labels, node, scheduler, cs) ==
    [isNil |-> FALSE, namespace |-> ns, labels |-> labels, annotations |-> NoMap,
     nodeName |-> node, schedulerName |-> scheduler, containers |-> cs]

\* the Ready condition of an expired reservation
ExpiredCondition ==
    [type |-> "Ready", status |-> "False", reason |-> "Expired"]

GetReservationKey(r) == r.uid

GetReservePodKey(pod) == pod.uid

GetReservationNodeName(r) == r.statusNodeName

GetReservationSchedulerName(r) ==
    IF r.template.isNil \/ r.template.schedulerName = "" THEN DefaultSchedulerName
    ELSE r.template.schedulerName

IsReservationSucceeded(r) == r.phase = ReservationSucceeded

IsReservationFailed(r) == r.phase = ReservationFailed

\* the first Ready condition decides
IsReservationExpired(r) ==
    IF r.phase # ReservationFailed THEN FALSE
    ELSE LET ready == {i \in DOMAIN r.conditions : r.conditions[i].type = "Ready"}
         IN IF ready = {} THEN FALSE
            ELSE LET c == r.conditions[CHOOSE i \in ready : \A j \in ready : i <= j]
                 IN c.status = "False" /\ c.reason = "Expired"

IsReservePod(pod) ==
    /\ AnnotationReservePod \in DOMAIN pod.annotations
    /\ pod.annotations[AnnotationReservePod] = "true"

GetReservePodNodeName(pod) ==
    IF AnnotationReservationNode \in DOMAIN pod.annotations
    THEN pod.annotations[AnnotationReservationNode] ELSE ""

GetReservationNameFromReservePod(pod) ==
    IF AnnotationReservationName \in DOMAIN pod.annotations
    THEN pod.annotations[AnnotationReservationName] ELSE ""

NewReservePod(r) ==
    LET t         == r.template
        namespace == IF t.namespace = "" THEN NamespaceDefault ELSE t.namespace
        labels    == Merge(t.labels, r.labels)
        marked    == Merge(Merge(t.annotations, r.annotations),
                           [k \in {AnnotationReservePod, AnnotationReservationName} |->
                               IF k = AnnotationReservePod THEN "true" ELSE r.name])
        annotated == IF t.nodeName # ""
                     THEN Merge(marked, [k \in {AnnotationReservationNode} |-> t.nodeName])
                     ELSE marked
        nodeName  == IF GetReservationNodeName(r) # "" THEN GetReservationNodeName(r)
                     ELSE ""
        phase     == IF IsReservationSucceeded(r) THEN PodSucceeded
                     ELSE IF IsReservationExpired(r) \/ IsReservationFailed(r)
                          THEN PodFailed
                     ELSE ""
    IN [kind |-> "Pod", name |-> GetReservationKey(r), uid |-> r.uid,
        namespace |-> namespace, labels |-> labels, annotations |-> annotated,
        containers |-> t.containers, nodeName |-> nodeName, phase |-> phase,
        schedulerName |-> GetReservationSchedulerName(r)]

----------------------------------------------------------------------------
(* ReservationToPodEventHandler *)

IsReservation(obj) == obj.kind = "Reservation"

IsTombstone(obj) == obj.kind = "DeletedFinalStateUnknown"

\* a call of the downstream cache.ResourceEventHandler
Event(kind, pods) == [kind |-> kind, pods |-> pods]

\* the calls of the downstream handler that OnAdd(obj) makes
OnAdd(obj) ==
    IF ~IsReservation(obj) THEN <<>>
    ELSE << Event("OnAdd", <<NewReservePod(obj)>>) >>

OnUpdate(oldObj, newObj) ==
    IF ~IsReservation(oldObj) \/ ~IsReservation(newObj) THEN <<>>
    ELSE << Event("OnUpdate", <<NewReservePod(oldObj), NewReservePod(newObj)>>) >>

\* OnDelete without the case cache.DeletedFinalStateUnknown
OnDeleteWithoutTombstone(obj) ==
    IF IsReservation(obj) THEN << Event("OnDelete", <<NewReservePod(obj)>>) >>
    ELSE <<>>

OnDelete(obj) ==
    IF IsReservation(obj) THEN << Event("OnDelete", <<NewReservePod(obj)>>) >>
    ELSE IF IsTombstone(obj)
         THEN IF ~IsReservation(obj.obj) THEN <<>>
              ELSE << Event("OnDelete", <<NewReservePod(obj.obj)>>) >>
    ELSE <<>>

(* Inputs *)

Templates ==
    { NilTemplate,
      Template("", NoMap, "", "", "c0"),
      Template("ns1", [k \in {"app"} |-> "template"], "node-t", "koord-scheduler", "c1") }

Phases ==
    { ReservationPending, ReservationAvailable, ReservationWaiting,
      ReservationSucceeded, ReservationFailed }

Reservations ==
    { [kind |-> "Reservation", uid |-> "uid-1", name |-> "r1",
       labels |-> l, annotations |-> NoMap, template |-> t,
       owners |-> 1, ttl |-> TRUE, expires |-> FALSE,
       statusNodeName |-> n, phase |-> ph, conditions |-> cs] :
        l \in {NoMap, [k \in {"app"} |-> "reservation"]},
        t \in Templates, n \in {"", "node-1"}, ph \in Phases,
        cs \in {<<>>, <<ExpiredCondition>>} }

\* an object of another type
OtherObject == [kind |-> "Pod", uid |-> "uid-9"]

Tombstone(obj) == [kind |-> "DeletedFinalStateUnknown", key |-> obj.uid, obj |-> obj]

Objects ==
    Reservations \cup {OtherObject} \cup {Tombstone(o) : o \in Reservations \cup {OtherObject}}

\* the notifications an informer delivers
Notifications ==
    {[kind |-> "add", old |-> o, new |-> o] : o \in Objects}
    \cup {[kind |-> "delete", old |-> o, new |-> o] : o \in Objects}
    \cup {[kind |-> "update", old |-> o, new |-> n] : o \in Objects, n \in Objects}

InitHandler ==
    /\ notification \in Notifications
    /\ handled = FALSE
    /\ forwarded = <<>>

IdleHandler ==
    /\ notification = [kind |-> "none"]
    /\ handled = TRUE
    /\ forwarded = <<>>

DeliverAdd ==
    /\ ~handled
    /\ notification.kind = "add"
    /\ forwarded' = forwarded \o OnAdd(notification.new)
    /\ handled' = TRUE
    /\ UNCHANGED notification
    /\ UNCHANGED <<pipeVars, normVars, patchVars, reserveVars, memVars, filterVars, classifyVars>>

DeliverUpdate ==
    /\ ~handled
    /\ notification.kind = "update"
    /\ forwarded' = forwarded \o OnUpdate(notification.old, notification.new)
    /\ handled' = TRUE
    /\ UNCHANGED notification
    /\ UNCHANGED <<pipeVars, normVars, patchVars, reserveVars, memVars, filterVars, classifyVars>>

DeliverDelete ==
    /\ ~handled
    /\ notification.kind = "delete"
    /\ forwarded' = forwarded \o OnDelete(notification.new)
    /\ handled' = TRUE
    /\ UNCHANGED notification
    /\ UNCHANGED <<pipeVars, normVars, patchVars, reserveVars, memVars, filterVars, classifyVars>>

----------------------------------------------------------------------------
(* Multi-device classification of the converted request *)

isMultipleCommonDevicePod(req, dt) ==
    IF IsEmptyRequest(req) THEN FALSE
    ELSE IF dt = RDMA THEN Get(req, ResourceRDMA) > 100 /\ Get(req, ResourceRDMA) % 100 = 0
    ELSE IF dt = FPGA THEN Get(req, ResourceFPGA) > 100 /\ Get(req, ResourceFPGA) % 100 = 0
    ELSE FALSE

isMultipleGPUPod(req) ==
    IF IsEmptyRequest(req) THEN FALSE
    ELSE Get(req, ResourceGPUCore) > 100 /\ Get(req, ResourceGPUCore) % 100 = 0

IdleClassify ==
    /\ classified = FALSE
    /\ multiple = FALSE

DoClassifyGPU ==
    /\ pc \in {"converted", "filled"}
    /\ deviceType = GPU
    /\ ~classified
    /\ multiple' = isMultipleGPUPod(converted)
    /\ classified' = TRUE
    /\ UNCHANGED <<pipeVars, normVars, patchVars, reserveVars, handlerVars, memVars, filterVars>>

DoClassifyCommon ==
    /\ pc = "converted"
    /\ deviceType # GPU
    /\ ~classified
    /\ multiple' = isMultipleCommonDevicePod(converted, deviceType)
    /\ classified' = TRUE
    /\ UNCHANGED <<pipeVars, normVars, patchVars, reserveVars, handlerVars, memVars, filterVars>>

----------------------------------------------------------------------------
(* readMemInfo: the parser of the host memory statistics file *)

\* the keys of the file's lines and the field of MemInfo each one sets
MemInfoKeys == <<"MemTotal", "Cached", "Active(anon)", "HugePages_Total">>

FieldOfKey(key) ==
    CASE key = "MemTotal"        -> "MemTotal"
      [] key = "Cached"          -> "Cached"
      [] key = "Active(anon)"    -> "ActiveAnon"
      [] key = "HugePages_Total" -> "HugePages_Total"

MemInfoFields == {FieldOfKey(MemInfoKeys[i]) : i \in DOMAIN MemInfoKeys}

\* the unit that follows the value on the line of a key
UnitOfKey(key) == IF key = "HugePages_Total" THEN "" ELSE "kB"

DigitChars == <<"0", "1", "2", "3", "4", "5", "6", "7", "8", "9">>

IsDigit(c) == \E i \in DOMAIN DigitChars : DigitChars[i] = c

DigitValue(c) == (CHOOSE i \in DOMAIN DigitChars : DigitChars[i] = c) - 1

\* the decimal value of the digits of text up to position n
RECURSIVE DecimalValue(_, _)
DecimalValue(text, n) ==
    IF n = 0 THEN 0 ELSE 10 * DecimalValue(text, n - 1) + DigitValue(text[n])

\* the value field of a line as an unsigned decimal number, or a failure
ParseUint(text) ==
    IF Len(text) = 0 \/ \E i \in DOMAIN text : ~IsDigit(text[i])
    THEN [ok |-> FALSE, value |-> 0]
    ELSE [ok |-> TRUE, value |-> DecimalValue(text, Len(text))]

\* &MemInfo{}: every field zero
ZeroMemInfo == [f \in MemInfoFields |-> 0]

\* the nil *MemInfo returned with an error
NilMemInfo == <<>>

ReadFileError == "no such file or directory"

ParseError == "parse error"

\* the record after the lines from position i on are scanned
RECURSIVE scanLines(_, _, _)
scanLines(lines, i, info) ==
    IF i > Len(lines) THEN info
    ELSE LET parsed == ParseUint(lines[i].value)
         IN IF ~parsed.ok THEN scanLines(lines, i + 1, info)
            ELSE scanLines(lines, i + 1,
                           [info EXCEPT ![FieldOfKey(lines[i].key)] = parsed.value])

\* readMemInfo giving up at a value that is no number
readMemInfoStrict(file) ==
    IF ~file.exists THEN [info |-> NilMemInfo, err |-> ReadFileError]
    ELSE IF \E i \in DOMAIN file.lines : ~ParseUint(file.lines[i].value).ok
         THEN [info |-> NilMemInfo, err |-> ParseError]
    ELSE [info |-> scanLines(file.lines, 1, ZeroMemInfo), err |-> NoError]

readMemInfo(file) ==
    IF ~file.exists THEN [info |-> NilMemInfo, err |-> ReadFileError]
    ELSE [info |-> scanLines(file.lines, 1, ZeroMemInfo), err |-> NoError]

(* Inputs *)

\* the value fields drawn, each with the number it denotes if it denotes one
ValueTexts ==
    { [text |-> <<"0">>, numeric |-> TRUE, value |-> 0],
      [text |-> <<"6", "2", "4">>, numeric |-> TRUE, value |-> 624],
      [text |-> <<"2", "0", "4", "8">>, numeric |-> TRUE, value |-> 2048],
      [text |-> <<"i", "n", "v", "a", "l", "i", "d", "F", "i", "e", "l", "d">>,
       numeric |-> FALSE, value |-> 0],
      [text |-> <<"1", "2", "k">>, numeric |-> FALSE, value |-> 0] }

MemInfoLine(key, text) == [key |-> key, value |-> text, unit |-> UnitOfKey(key)]

\* no file at the path
AbsentFile == [exists |-> FALSE, lines |-> <<>>]

\* a file with one line for each key
MemInfoFiles ==
    { [exists |-> TRUE,
       lines |-> [i \in DOMAIN MemInfoKeys |-> MemInfoLine(MemInfoKeys[i], choice[i].text)]] :
        choice \in [DOMAIN MemInfoKeys -> ValueTexts] }

InitMem ==
    /\ memPc = "start"
    /\ memFile \in MemInfoFiles \cup {AbsentFile}
    /\ memInfo = NilMemInfo
    /\ memErr = NoError

IdleMem ==
    /\ memPc = "idle"
    /\ memFile = AbsentFile
    /\ memInfo = NilMemInfo
    /\ memErr = NoError

DoReadMemInfo ==
    /\ memPc = "start"
    /\ LET r == readMemInfo(memFile)
       IN /\ memInfo' = r.info
          /\ memErr' = r.err
    /\ memPc' = "done"
    /\ UNCHANGED memFile
    /\ UNCHANGED <<pipeVars, normVars, patchVars, reserveVars, handlerVars, filterVars, classifyVars>>

----------------------------------------------------------------------------
(* The handler that NewReservationToPodEventHandler builds *)

NoReservation == [kind |-> "none"]

IdleFilter ==
    /\ stored = FALSE
    /\ latest = NoReservation
    /\ received = <<>>
    /\ delivered = 0

\* the *Reservation of obj.(*schedulingv1alpha1.Reservation): nil when obj is of
\* another type
NilReservation == [kind |-> "nil"]

AsReservation(obj) == IF IsReservation(obj) THEN obj ELSE NilReservation

ValidateReservation(r) ==
    IF r.kind = "nil" THEN "the reservation is nil"
    ELSE IF r.template.isNil THEN "the reservation misses the template spec"
    ELSE IF r.owners <= 0 THEN "the reservation misses the owner spec"
    ELSE IF ~r.ttl /\ ~r.expires THEN "the reservation misses the expiration spec"
    ELSE NoError

IsReservationActive(r) ==
    /\ r.kind # "nil"
    /\ GetReservationNodeName(r) # ""
    /\ r.phase \in {ReservationAvailable, ReservationWaiting}

IsObjValidActiveReservation(obj) ==
    LET reservation == AsReservation(obj)
    IN IF ValidateReservation(reservation) # NoError THEN FALSE
       ELSE IF ~IsReservationActive(reservation) THEN FALSE
       ELSE TRUE

\* FilterFunc of the handler NewReservationToPodEventHandler(h,
\* IsObjValidActiveReservation) returns
FilterFunc(obj) == IsObjValidActiveReservation(obj)

\* cache.FilteringResourceEventHandler in front of ReservationToPodEventHandler:
\* the calls of the downstream handler each notification makes
FilteringOnAdd(obj) == IF ~FilterFunc(obj) THEN <<>> ELSE OnAdd(obj)

FilteringOnUpdate(oldObj, newObj) ==
    LET newer == FilterFunc(newObj)
        older == FilterFunc(oldObj)
    IN IF newer /\ older THEN OnUpdate(oldObj, newObj)
       ELSE IF newer /\ ~older THEN OnAdd(newObj)
       ELSE IF ~newer /\ older THEN OnDelete(oldObj)
       ELSE <<>>

FilteringOnDelete(obj) == IF ~FilterFunc(obj) THEN <<>> ELSE OnDelete(obj)

\* the kinds of a sequence of downstream calls
Kinds(events) == [i \in DOMAIN events |-> events[i].kind]

(* Inputs *)

\* the states of one reservation
ReservationStates ==
    { [kind |-> "Reservation", uid |-> "uid-1", name |-> "r1",
       labels |-> NoMap, annotations |-> NoMap, template |-> t,
       owners |-> o, ttl |-> e[1], expires |-> e[2],
       statusNodeName |-> n, phase |-> ph, conditions |-> <<>>] :
        t \in {NilTemplate, Template("", NoMap, "", "", "c0")},
        o \in {0, 1}, e \in {<<TRUE, FALSE>>, <<FALSE, TRUE>>, <<FALSE, FALSE>>},
        n \in {"", "node-1"}, ph \in Phases }

InitFilter ==
    /\ stored = FALSE
    /\ latest = NoReservation
    /\ received = <<>>
    /\ delivered = 0

\* the reservation is created
NotifyAdd ==
    /\ delivered < MaxNotifications
    /\ ~stored
    /\ \E r \in ReservationStates :
        /\ latest' = r
        /\ received' = received \o Kinds(FilteringOnAdd(r))
    /\ stored' = TRUE
    /\ delivered' = delivered + 1
    /\ UNCHANGED <<pipeVars, normVars, patchVars, reserveVars, handlerVars, memVars, classifyVars>>

\* the reservation changes: the old object is the state notified last
NotifyUpdate ==
    /\ delivered < MaxNotifications
    /\ stored
    /\ \E r \in ReservationStates :
        /\ latest' = r
        /\ received' = received \o Kinds(FilteringOnUpdate(latest, r))
    /\ delivered' = delivered + 1
    /\ UNCHANGED stored
    /\ UNCHANGED <<pipeVars, normVars, patchVars, reserveVars, handlerVars, memVars, classifyVars>>

\* the reservation is deleted and the informer saw the deletion
NotifyDelete ==
    /\ delivered < MaxNotifications
    /\ stored
    /\ received' = received \o Kinds(FilteringOnDelete(latest))
    /\ stored' = FALSE
    /\ delivered' = delivered + 1
    /\ UNCHANGED latest
    /\ UNCHANGED <<pipeVars, normVars, patchVars, reserveVars, handlerVars, memVars, classifyVars>>

\* the reservation is deleted and the informer missed the deletion: the delete is
\* delivered as a DeletedFinalStateUnknown that wraps the state known last
NotifyDeleteTombstone ==
    /\ delivered < MaxNotifications
    /\ stored
    /\ received' = received \o Kinds(FilteringOnDelete(Tombstone(latest)))
    /\ stored' = FALSE
    /\ delivered' = delivered + 1
    /\ UNCHANGED latest
    /\ UNCHANGED <<pipeVars, normVars, patchVars, reserveVars, handlerVars, memVars, classifyVars>>

----------------------------------------------------------------------------
(* Specifications *)

vars == <<pipeVars, normVars, patchVars, reserveVars, handlerVars, memVars, filterVars, classifyVars>>

\* the deviceshare pipeline of one pod
Init == InitPipe /\ IdleNorm /\ IdlePatch /\ IdleReserve /\ IdleHandler /\ IdleMem /\ IdleFilter /\ IdleClassify
Next == DoValidateGPU \/ DoValidateCommon \/ DoConvertGPU \/ DoConvertCommon \/ DoFill
Spec == Init /\ [][Next]_vars

\* the unit normalizer applied to drawn quantities
NormalizerInit == IdlePipe /\ InitNorm /\ IdlePatch /\ IdleReserve /\ IdleHandler /\ IdleMem /\ IdleFilter /\ IdleClassify
NormalizerNext == ApplyRatioToBytes \/ ApplyBytesToRatio \/ ApplyRoundTrip
NormalizerSpec == NormalizerInit /\ [][NormalizerNext]_vars

\* the workload patcher applied to drawn pods
PatchInit == IdlePipe /\ IdleNorm /\ InitPatch /\ IdleReserve /\ IdleHandler /\ IdleMem /\ IdleFilter /\ IdleClassify
PatchNext == DoPatch
PatchSpec == PatchInit /\ [][PatchNext]_vars

\* concurrent reservations against one minor
ReserveInit == IdlePipe /\ IdleNorm /\ IdlePatch /\ InitReserve /\ IdleHandler /\ IdleMem /\ IdleFilter /\ IdleClassify
ReserveNext == \E c \in Callers : Acquire(c) \/ DoReserve(c)
ReserveSpec == ReserveInit /\ [][ReserveNext]_vars

\* one notification delivered to the reservation event handler
HandlerInit == IdlePipe /\ IdleNorm /\ IdlePatch /\ IdleReserve /\ InitHandler /\ IdleMem /\ IdleFilter /\ IdleClassify
HandlerNext == DeliverAdd \/ DeliverUpdate \/ DeliverDelete
HandlerSpec == HandlerInit /\ [][HandlerNext]_vars

\* the pipeline followed by the multi-device classification
ClassifyInit == Init
ClassifyNext ==
    \/ DoValidateGPU \/ DoValidateCommon \/ DoConvertGPU \/ DoConvertCommon \/ DoFill
    \/ DoClassifyGPU \/ DoClassifyCommon
ClassifySpec == ClassifyInit /\ [][ClassifyNext]_vars

\* the notifications about one reservation, through the filtering handler
FilterInit ==
    /\ IdlePipe /\ IdleNorm /\ IdlePatch /\ IdleReserve /\ IdleHandler /\ IdleMem
    /\ InitFilter /\ IdleClassify
FilterNext == NotifyAdd \/ NotifyUpdate \/ NotifyDelete \/ NotifyDeleteTombstone
FilterSpec == FilterInit /\ [][FilterNext]_vars

\* one call of readMemInfo
MemInit == IdlePipe /\ IdleNorm /\ IdlePatch /\ IdleReserve /\ IdleHandler /\ InitMem /\ IdleFilter /\ IdleClassify
MemNext == DoReadMemInfo
MemSpec == MemInit /\ [][MemNext]_vars

----------------------------------------------------------------------------
(* Properties of the request validator *)

GPUNames == Range(DeviceResourceNames(GPU))

CoreAndMemory == BitOr(GPUCoreExist, GPUMemoryExist)

CoreAndMemoryRatio == BitOr(GPUCoreExist, GPUMemoryRatioExist)

RatioNames == {ResourceGPU, ResourceGPUCore, ResourceGPUMemoryRatio}

GPUValidated == pc # "start" /\ pc # "idle" /\ deviceType = GPU

CommonValidated == pc # "start" /\ pc # "idle" /\ deviceType # GPU

OutOfRange(r) == r > 100 /\ r % 100 # 0

RatiosInRange(req) == \A n \in RatioNames \cap DOMAIN req : ~OutOfRange(req[n])

BitOf(n) ==
    CASE n = ResourceNvidiaGPU      -> 1
      [] n = ResourceGPU            -> 2
      [] n = ResourceGPUCore        -> 4
      [] n = ResourceGPUMemory      -> 8
      [] n = ResourceGPUMemoryRatio -> 16

RECURSIVE SumBits(_)
SumBits(names) ==
    IF names = {} THEN 0
    ELSE LET n == CHOOSE x \in names : TRUE IN BitOf(n) + SumBits(names \ {n})

WhitelistNameSets ==
    { {ResourceNvidiaGPU}, {ResourceGPU},
      {ResourceGPUCore, ResourceGPUMemory},
      {ResourceGPUCore, ResourceGPUMemoryRatio} }

\* C1: on a non-empty request whose ratio quantities are each <= 100 or a multiple
\* of 100, ValidateGPURequest returns no error exactly when the GPU names present
\* are one of the four whitelisted sets, every other set of names gives the
\* invalid-combination error, and the mask returned has exactly the bits of the
\* names present.
C1_ValidateWhitelist ==
    (GPUValidated /\ ~IsEmptyRequest(podRequest) /\ RatiosInRange(podRequest)) =>
        /\ err = NoError <=> (GPUNames \cap DOMAIN podRequest) \in WhitelistNameSets
        /\ err # NoError => err = InvalidCombination
        /\ combination = SumBits(GPUNames \cap DOMAIN podRequest)

C1_Witness ==
    /\ GPUValidated
    /\ err = NoError
    /\ combination = CoreAndMemory
    /\ Has(podRequest, ResourceCPU)

\* C3: a request with an out-of-range ratio quantity (r > 100 and r % 100 # 0)
\* under koordinator.sh/gpu, gpu-core or gpu-memory-ratio, or under the one name
\* of RDMA or FPGA, is rejected with the invalid-quantity error whatever else it
\* holds, and no other request gets that error.
C3_RejectOutOfRange ==
    /\ GPUValidated =>
          (err = InvalidQuantity <=>
              \E n \in RatioNames \cap DOMAIN podRequest : OutOfRange(podRequest[n]))
    /\ CommonValidated =>
          LET name == IF deviceType = RDMA THEN ResourceRDMA ELSE ResourceFPGA
          IN err = InvalidQuantity <=>
                (name \in DOMAIN podRequest /\ OutOfRange(podRequest[name]))

C3_Witness ==
    /\ GPUValidated
    /\ err = InvalidQuantity
    /\ Has(podRequest, ResourceNvidiaGPU)
    /\ Has(podRequest, ResourceGPUCore) /\ podRequest[ResourceGPUCore] = 100
    /\ Has(podRequest, ResourceGPUMemoryRatio) /\ podRequest[ResourceGPUMemoryRatio] = 150

----------------------------------------------------------------------------
(* Properties of the request converter *)

GPUConverted == pc \in {"converted", "filled"} /\ deviceType = GPU

WholeDeviceName == IF combination = NvidiaGPUExist THEN ResourceNvidiaGPU ELSE ResourceGPU

CanonicalNames == {ResourceGPUCore, ResourceGPUMemoryRatio}

\* C4 as stated: with a whole-device name alone, native or normalized, core-share
\* and memory-ratio are both 100 times the quantity requested under that name.
C4_Original ==
    (GPUConverted /\ combination \in {NvidiaGPUExist, KoordGPUExist}) =>
        /\ converted[ResourceGPUCore] = 100 * podRequest[WholeDeviceName]
        /\ converted[ResourceGPUMemoryRatio] = 100 * podRequest[WholeDeviceName]

\* C4 amended: with a whole-device name alone, core-share and memory-ratio are
\* equal; under nvidia.com/gpu they are 100 times the device count requested, and
\* under koordinator.sh/gpu, a percentage already, they are the quantity requested.
C4_WholeDevice ==
    (GPUConverted /\ combination \in {NvidiaGPUExist, KoordGPUExist}) =>
        /\ converted[ResourceGPUCore] = converted[ResourceGPUMemoryRatio]
        /\ combination = NvidiaGPUExist =>
              converted[ResourceGPUCore] = 100 * podRequest[ResourceNvidiaGPU]
        /\ combination = KoordGPUExist =>
              converted[ResourceGPUCore] = podRequest[ResourceGPU]

C4_Witness ==
    /\ GPUConverted
    /\ combination = KoordGPUExist
    /\ podRequest[ResourceGPU] = 200
    /\ converted[ResourceGPUCore] = 200

\* C5 as stated: for every whitelisted mask ConvertGPUResource returns exactly the
\* names core-share and memory-ratio, the memory-ratio of core-share + memory-bytes
\* being BytesToRatio of the bytes.
C5_Original == GPUConverted => DOMAIN converted = CanonicalNames

\* C5 amended: ConvertGPUResource returns exactly core-share and memory-ratio for
\* the whole-device masks and for core-share + memory-ratio, which it passes
\* through unchanged; for core-share + memory-bytes it returns core-share and
\* memory-bytes, both unchanged. fillGPUTotalMem then adds the name that is
\* missing: the request ends with core-share, memory-bytes and memory-ratio, and
\* for core-share + memory-bytes the memory-ratio is memBytesToRatio of the bytes
\* and the total memory of the active minor, next to the bytes, not in their place.
C5_CanonicalNames ==
    /\ GPUConverted =>
          /\ combination # CoreAndMemory => DOMAIN converted = CanonicalNames
          /\ combination = CoreAndMemoryRatio =>
                /\ converted[ResourceGPUCore] = podRequest[ResourceGPUCore]
                /\ converted[ResourceGPUMemoryRatio] = podRequest[ResourceGPUMemoryRatio]
          /\ combination = CoreAndMemory =>
                /\ DOMAIN converted = {ResourceGPUCore, ResourceGPUMemory}
                /\ converted[ResourceGPUCore] = podRequest[ResourceGPUCore]
                /\ converted[ResourceGPUMemory] = podRequest[ResourceGPUMemory]
    /\ (pc = "filled" /\ deviceType = GPU) =>
          /\ DOMAIN filled = CanonicalNames \cup {ResourceGPUMemory}
          /\ \A n \in DOMAIN converted : filled[n] = converted[n]
          /\ combination = CoreAndMemory =>
                filled[ResourceGPUMemoryRatio] \in
                    memBytesToRatio(podRequest[ResourceGPUMemory],
                                    ActiveTotalMemory(nodeDeviceTotal, activeMinor))

C5_Witness ==
    /\ pc = "filled"
    /\ combination = CoreAndMemory
    /\ ActiveTotalMemory(nodeDeviceTotal, activeMinor) = 200
    /\ filled[ResourceGPUMemory] = 50
    /\ filled[ResourceGPUMemoryRatio] = 25

----------------------------------------------------------------------------
(* Properties of the unit normalizer *)

\* x/y rounded to the nearest whole number
RoundNearest(x, y) == (2 * x + y) \div (2 * y)

\* C6: for T > 0 and bytes >= 0, memBytesToRatio(bytes, T) is bytes*100/T rounded
\* to the nearest whole number.
C6_RoundsToNearest ==
    (nOp = "memBytesToRatio" /\ nTotal > 0) => nOut = RoundNearest(100 * nIn, nTotal)

\* C7: for T > 0 and r >= 0 with r*T an exact multiple of 100,
\* memBytesToRatio(memRatioToBytes(r, T), T) = r.
C7_RoundTrip ==
    (nOp = "roundTrip" /\ nTotal > 0 /\ (nIn * nTotal) % 100 = 0) => nOut = nIn

\* C8: with a total memory of zero, from an empty or a zero-capacity device set,
\* the conversions fail and fillGPUTotalMem writes no memory-bytes and no
\* memory-ratio value into the request.
C8_ZeroTotalWritesNothing ==
    (pc = "filled" /\ ActiveTotalMemory(nodeDeviceTotal, activeMinor) = 0) =>
        filled = converted

----------------------------------------------------------------------------
(* Properties of the workload patcher *)

RequestsGPU(c) == c.hasRequests /\ GPUNames \cap DOMAIN c.requests # {}

\* the containers, in order, that request a GPU resource name
GPUContainers(cs) == {i \in DOMAIN cs : RequestsGPU(cs[i])}

FirstGPUContainer(cs) ==
    CHOOSE i \in GPUContainers(cs) : \A j \in GPUContainers(cs) : i <= j

CanonicalValue(req, n) == IF n \in DOMAIN req THEN req[n] ELSE 0

\* C9: patchContainerGPUResource changes at most one container: the first whose
\* requests hold any of the five GPU names gets gpu-core, gpu-memory and
\* gpu-memory-ratio set to the values of the canonical request; every other
\* container and every other entry of the patched one stay as they were; with no
\* such container (nil requests included) the pod is unchanged.
C9_PatchFrame ==
    patchPc = "patched" =>
        /\ Len(containers) = Len(containersBefore)
        /\ GPUContainers(containersBefore) = {} => containers = containersBefore
        /\ GPUContainers(containersBefore) # {} =>
              LET first  == FirstGPUContainer(containersBefore)
                  before == containersBefore[first].requests
                  after  == containers[first].requests
              IN /\ \A i \in DOMAIN containers :
                        i # first => containers[i] = containersBefore[i]
                 /\ containers[first].hasRequests
                 /\ DOMAIN after = DOMAIN before \cup Range(PatchedNames)
                 /\ \A n \in Range(PatchedNames) :
                        after[n] = CanonicalValue(patchRequest, n)
                 /\ \A n \in DOMAIN before \ Range(PatchedNames) : after[n] = before[n]

\* two containers request a GPU name, a container before them does not, and only
\* the first of the two was patched
C9_Witness ==
    /\ patchPc = "patched"
    /\ Cardinality(GPUContainers(containersBefore)) >= 2
    /\ 1 \notin GPUContainers(containersBefore)
    /\ containers # containersBefore
    /\ Has(containersBefore[FirstGPUContainer(containersBefore)].requests, ResourceCPU)

----------------------------------------------------------------------------
(* Properties of the device capacity cache *)

AllDone == \A c \in Callers : rpc[c] = "done"

\* the sum of the deltas of the callers cs for the name n
RECURSIVE SumDelta(_, _)
SumDelta(cs, n) ==
    IF cs = {} THEN 0
    ELSE LET c == CHOOSE x \in cs : TRUE IN delta[c][n] + SumDelta(cs \ {c}, n)

Succeeded == {c \in Callers : result[c] = Reserved}

Failed == {c \in Callers : result[c] = InsufficientCapacity}

\* every caller asks for the same quantity d of every name, d divides the total
\* and the deltas together exceed it
UniformOverCapacity ==
    \E d \in DeltaValues :
        /\ \A c \in Callers : \A n \in CapacityNames : delta[c][n] = d
        /\ \A n \in CapacityNames : total[n] % d = 0 /\ NumCallers * d > total[n]

----------------------------------------------------------------------------
(* Properties of the reservation event handler *)

\* the reservation a delete notification is about: the object itself, or the one
\* a DeletedFinalStateUnknown wraps
DeletedReservation(obj) == IF IsTombstone(obj) THEN obj.obj ELSE obj

\* the notification is about reservations only
AboutReservations(n) ==
    CASE n.kind = "add"    -> IsReservation(n.new)
      [] n.kind = "update" -> IsReservation(n.old) /\ IsReservation(n.new)
      [] n.kind = "delete" -> IsReservation(DeletedReservation(n.new))

\* pod is the reserve pod of the reservation r
ReservePodOf(pod, r) ==
    /\ pod = NewReservePod(r)
    /\ IsReservePod(pod)
    /\ GetReservePodKey(pod) = GetReservationKey(r)
    /\ GetReservationNameFromReservePod(pod) = r.name

\* C10: a notification about reservations is forwarded as exactly one downstream
\* event of the same kind that carries the reserve pod of each reservation, a
\* deleted reservation being accepted inside a DeletedFinalStateUnknown too; a
\* notification whose object is no Reservation forwards nothing.
C10_ForwardsOneEvent ==
    handled /\ notification.kind # "none" =>
        IF ~AboutReservations(notification) THEN forwarded = <<>>
        ELSE /\ Len(forwarded) = 1
             /\ notification.kind = "add" =>
                   /\ forwarded[1].kind = "OnAdd"
                   /\ Len(forwarded[1].pods) = 1
                   /\ ReservePodOf(forwarded[1].pods[1], notification.new)
             /\ notification.kind = "update" =>
                   /\ forwarded[1].kind = "OnUpdate"
                   /\ Len(forwarded[1].pods) = 2
                   /\ ReservePodOf(forwarded[1].pods[1], notification.old)
                   /\ ReservePodOf(forwarded[1].pods[2], notification.new)
             /\ notification.kind = "delete" =>
                   /\ forwarded[1].kind = "OnDelete"
                   /\ Len(forwarded[1].pods) = 1
                   /\ ReservePodOf(forwarded[1].pods[1],
                                   DeletedReservation(notification.new))

\* a reservation deleted inside a DeletedFinalStateUnknown was forwarded as OnDelete
C10_Witness ==
    /\ handled
    /\ notification.kind = "delete"
    /\ IsTombstone(notification.new)
    /\ Len(forwarded) = 1
    /\ forwarded[1].kind = "OnDelete"
    /\ forwarded[1].pods[1].nodeName = "node-1"
    /\ GetReservePodNodeName(forwarded[1].pods[1]) = "node-t"

----------------------------------------------------------------------------
(* Properties of readMemInfo *)

\* the drawn value field with the text of the line
TextEntry(text) == CHOOSE e \in ValueTexts : e.text = text

IsNumericLine(line) == TextEntry(line.value).numeric

MemRead == memPc = "done"

\* every field of the record is the number on the line of its key
ExactFields ==
    \A i \in DOMAIN memFile.lines :
        memInfo[FieldOfKey(memFile.lines[i].key)] = TextEntry(memFile.lines[i].value).value

\* C11 as stated: readMemInfo fails when the file is absent and when the value of
\* a field is no number, and returns the exact values of a file whose fields are
\* all numbers.
C11_Original ==
    MemRead =>
        /\ ~memFile.exists => memErr # NoError
        /\ (memFile.exists /\ \E i \in DOMAIN memFile.lines : ~IsNumericLine(memFile.lines[i]))
              => memErr # NoError
        /\ (memFile.exists /\ \A i \in DOMAIN memFile.lines : IsNumericLine(memFile.lines[i]))
              => memErr = NoError /\ ExactFields

\* C11 amended: readMemInfo fails, returning no record, exactly when the file is
\* absent; for a file that exists it returns without error a record in which the
\* field of every line with a number is that number and the field of a line whose
\* value is no number is left at zero.
C11_ReadMemInfo ==
    MemRead =>
        IF ~memFile.exists THEN memErr # NoError /\ memInfo = NilMemInfo
        ELSE /\ memErr = NoError
             /\ DOMAIN memInfo = MemInfoFields
             /\ \A i \in DOMAIN memFile.lines :
                   LET line == memFile.lines[i]
                   IN memInfo[FieldOfKey(line.key)] =
                         IF IsNumericLine(line) THEN TextEntry(line.value).value ELSE 0

\* a file whose Cached line holds invalidField was read: Cached is zero and the
\* fields before and after it hold their numbers
C11_Witness ==
    /\ MemRead
    /\ memFile.exists
    /\ ~IsNumericLine(memFile.lines[2])
    /\ memErr = NoError
    /\ memInfo["Cached"] = 0
    /\ memInfo["MemTotal"] = 624
    /\ memInfo["HugePages_Total"] = 2048

----------------------------------------------------------------------------
(* Properties of the multi-device classification *)

\* the quantity asks for more than one whole device
MoreThanOneDevice(v) == v > 100

\* the names of the converted request whose quantity decides the classification
DecidingNames ==
    IF deviceType = GPU THEN {ResourceGPUCore, ResourceGPUMemoryRatio}
    ELSE IF deviceType = RDMA THEN {ResourceRDMA}
    ELSE {ResourceFPGA}

\* C12: a validated and converted request is classified as multi-device exactly
\* when the quantity of gpu-core or of gpu-memory-ratio (of the device's own name
\* for RDMA and FPGA) is a multiple of 100 greater than 100; no request that asks
\* for more than 100 of one of them is classified as single-device.
C12_MultipleDevices ==
    classified =>
        /\ multiple <=>
              \E n \in DecidingNames :
                  MoreThanOneDevice(Get(converted, n)) /\ Get(converted, n) % 100 = 0
        /\ (\E n \in DecidingNames : MoreThanOneDevice(Get(converted, n))) => multiple

----------------------------------------------------------------------------
(* Properties of the canonical request *)

\* a ratio-typed quantity within one device or a whole number of devices
WellFormedRatio(v) == v <= 100 \/ v % 100 = 0

\* the request was filled against a node with a device of total memory above zero
FilledFromDevice ==
    /\ pc = "filled"
    /\ nodeDeviceTotal # <<>>
    /\ ActiveTotalMemory(nodeDeviceTotal, activeMinor) > 0

\* C13: after ValidateGPURequest, ConvertGPUResource and fillGPUTotalMem against
\* a device of total memory above zero, gpu-core and gpu-memory-ratio of the
\* request are each at most 100 or an exact multiple of 100, also when
\* gpu-memory-ratio was derived from a gpu-memory byte quantity.
C13_RatioInvariant ==
    FilledFromDevice =>
        \A n \in {ResourceGPUCore, ResourceGPUMemoryRatio} :
            Has(filled, n) /\ WellFormedRatio(Get(filled, n))

----------------------------------------------------------------------------
(* Properties of the handler that NewReservationToPodEventHandler builds *)

\* the positions of the downstream calls of a kind
CallsOf(kind) == {i \in DOMAIN received : received[i] = kind}

\* the downstream handler received an OnAdd with no later OnDelete
HoldsReservePod ==
    \E i \in CallsOf("OnAdd") : \A j \in CallsOf("OnDelete") : j < i

\* template, owners and TTL or expires set, node name set, phase Available or Waiting
ValidAndActive(r) ==
    /\ ~r.template.isNil
    /\ r.owners > 0
    /\ r.ttl \/ r.expires
    /\ r.statusNodeName # ""
    /\ r.phase \in {ReservationAvailable, ReservationWaiting}

\* C14: after any sequence of add, update and delete notifications about one
\* reservation, a delete being the Reservation itself or a DeletedFinalStateUnknown
\* that wraps it, the downstream handler holds the reserve pod (an OnAdd with no
\* later OnDelete) exactly when the reservation still exists and the state
\* notified last is valid and active.
C14_DownstreamTracksActive ==
    HoldsReservePod <=> (stored /\ ValidAndActive(latest))

====
